---- MODULE Spec2Model ----
(***************************************************************************)
(* A model of the Bitcoin-Client node: the block index (blockchain.rs),    *)
(* the mempool and UTXO state (transaction.rs), the Merkle tree            *)
(* (crypto/merkle.rs), the gossip workers (network/worker.rs), the miner   *)
(* (miner.rs) and the transaction generator thread (main.rs).              *)
(*                                                                         *)
(* Digests are symbolic: sha256 of a value is the record                   *)
(* [kind |-> "sha256", pre |-> value], so two digests are equal exactly    *)
(* when their preimages are.  A 32-byte constant is [kind |-> "raw", ...]. *)
(***************************************************************************)
EXTENDS Integers, Sequences, FiniteSets, TLC

VARIABLES
    chain,      \* Blockchain { blockmap, lengthmap, tip }
    buffer,     \* orphan_buffer: parent hash -> Block
    utxo,       \* State.utxo: <<hash, index>> -> <<value, recipient>>
    txmap,      \* Mempool.txmap: hash -> SignedTransaction
    owner,      \* which thread holds each of the four mutexes
    poisoned,   \* mutexes whose holder panicked
    pc,         \* position of every thread
    wl,         \* worker locals: blocks of the message left, current block, transactions
    opstate,    \* miner operating_state
    ctl,        \* miner control channel
    out,        \* messages handed to server.broadcast, with how many times each
    count,      \* how many inputs the environment has supplied so far
    last        \* what was last done with a block (bookkeeping for the properties)

vars == <<chain, buffer, utxo, txmap, owner, poisoned, pc, wl, opstate, ctl, out, count, last>>

-----------------------------------------------------------------------------
(* Bounds of the model *)

MaxNonce == 1
MaxHeight == 2
MaxMsgs == 2
MaxCtl == 1
MaxGen == 1
MaxBlocksPerMsg == 2
MaxBlocks == 5

-----------------------------------------------------------------------------
(* Hashes, keys, signatures *)

Raw(n) == [kind |-> "raw", v |-> n]

ZeroHash == Raw(0)

Sha256(x) == [kind |-> "sha256", pre |-> x]

Sha256d(x) == [kind |-> "sha256d", pre |-> x]

\* H256::to_addr of sha256(public key)
AddressOf(pk) == [kind |-> "h160", pre |-> pk]

\* a hash read as a big-endian number; for the digest of a header the number
\* is decided by the nonce (a digest is never the zero constant)
HashValue(h) ==
    IF h.kind = "raw" THEN h.v
    ELSE IF "nonce" \in DOMAIN h.pre THEN h.pre.nonce + 1
    ELSE 1

\* Ord on H256: hash <= difficulty
HashLeq(a, b) == HashValue(a) <= HashValue(b)

TxId(tx) == Sha256d(tx)

Sign(tx, key) == [signer |-> key, msg |-> TxId(tx)]

BadSignature == [signer |-> "nobody", msg |-> ZeroHash]

SigVerify(pk, msg, sig) == sig.signer = pk /\ sig.msg = msg

\* Hashable for Header, Block and SignedTransaction
HeaderHash(header) == Sha256(header)

BlockHash(block) == HeaderHash(block.header)

SignedHash(stx) == Sha256(stx)

Put(f, k, v) == [x \in (DOMAIN f) \cup {k} |-> IF x = k THEN v ELSE f[x]]

Drop(f, ks) == [x \in (DOMAIN f) \ ks |-> f[x]]

EmptyMap == [x \in {} |-> 0]

Range(s) == {s[i] : i \in DOMAIN s}

-----------------------------------------------------------------------------
(* Merkle tree *)

Sha256Pair(a, b) == Sha256([l |-> a, r |-> b])

\* lines 37-42; tree[start+2*i+1] past the end of the vector panics
RECURSIVE PushPairs(_, _, _, _)
PushPairs(tree, start, half, i) ==
    IF i >= half THEN [tree |-> tree, panics |-> FALSE]
    ELSE IF start + 2 * i + 2 > Len(tree) THEN [tree |-> tree, panics |-> TRUE]
    ELSE PushPairs(Append(tree, Sha256Pair(tree[start + 2 * i + 1], tree[start + 2 * i + 2])),
                   start, half, i + 1)

\* lines 35-51
RECURSIVE BuildRows(_, _, _, _)
BuildRows(tree, start, cur_len, dataLen) ==
    IF cur_len <= 1 THEN [tree |-> tree, panics |-> FALSE]
    ELSE LET pushed == PushPairs(tree, start, cur_len \div 2, 0)
             dup == IF dataLen % 2 = 1
                    THEN Append(pushed.tree, pushed.tree[Len(pushed.tree)])
                    ELSE pushed.tree
             half == cur_len \div 2
             next == IF half % 2 = 1 /\ half # 1 THEN half + 1 ELSE half
         IN  IF pushed.panics THEN pushed
             ELSE BuildRows(dup, start + cur_len, next, dataLen)

MerkleTreeNew(data) ==
    LET n == Len(data)
        leaves == [i \in 1..n |-> SignedHash(data[i])]
        odd == n % 2 = 1 /\ n # 1
        row == IF odd THEN Append(leaves, leaves[n]) ELSE leaves
        input_len == IF odd THEN n + 1 ELSE n
        built == BuildRows(row, 0, input_len, n)
    IN  [tree |-> built.tree, leaf_num |-> input_len, panics |-> built.panics]

\* MerkleTree::new has panicked on an index past the end of its vector
NewPanics(mt) == mt.panics

\* root() indexes tree[len - 1]: with an empty tree the index does not exist
RootPanics(mt) == Len(mt.tree) = 0

MerkleRoot(mt) == mt.tree[Len(mt.tree)]

RECURSIVE Pow2(_)
Pow2(k) == IF k = 0 THEN 1 ELSE 2 * Pow2(k - 1)

RECURSIVE HeightFrom(_, _, _)
HeightFrom(in_size, height, cur) ==
    IF in_size > cur THEN HeightFrom(in_size, height + 1, cur * 2) ELSE height

findHeight(in_size) == HeightFrom(in_size, 0, 1)

\* the loop of MerkleTree::proof, lines 68-84; indices count from 0 as in the
\* code, and indexing past the end of the vector panics
RECURSIVE ProofLoop(_, _, _, _, _, _)
ProofLoop(mt, height, i, cur_index, sequence, acc) ==
    IF i >= height THEN [panics |-> FALSE, proof |-> acc]
    ELSE LET group == (cur_index - sequence) \div 2
             sibling == IF cur_index % 2 = 1 THEN cur_index - 1 ELSE cur_index + 1
             moved == sequence + (IF i = 0 THEN mt.leaf_num ELSE Pow2(height - i))
         IN  IF sibling >= Len(mt.tree) THEN [panics |-> TRUE, proof |-> acc]
             ELSE ProofLoop(mt, height, i + 1, moved + group, moved,
                            Append(acc, mt.tree[sibling + 1]))

MerkleProof(mt, index) ==
    IF index >= mt.leaf_num THEN [panics |-> FALSE, proof |-> <<>>]
    ELSE ProofLoop(mt, findHeight(mt.leaf_num), 0, index, 0, <<>>)

\* the digest of everything fed to one digest::Context, in order; two hashes
\* fed to a fresh context give the digest that MerkleTree::new pushes
Sha256Fed(fed) ==
    IF Len(fed) = 2 THEN Sha256Pair(fed[1], fed[2]) ELSE Sha256([fed |-> fed])

\* the loop of verify, lines 98-116. ctx is created once, before the loop
\* (line 96), and line 115 finishes a clone of it, so ctx keeps what the
\* earlier rounds fed. cur_index and sequence are usize: where the build wraps,
\* they are kept here as integers that agree with the usize values modulo
\* 2^64, which decides all that the loop reads of them (the parity of
\* cur_index, and cur_index - sequence, which is the last group).
RECURSIVE VerifyLoop(_, _, _, _, _, _, _, _)
VerifyLoop(root, proof, leaf_num, i, cur_index, sequence, fed, trace) ==
    IF i >= Len(proof) THEN trace = root
    ELSE LET group == (cur_index - sequence) \div 2
             now == IF cur_index % 2 = 1
                    THEN fed \o <<proof[i + 1], trace>>
                    ELSE fed \o <<trace, proof[i + 1]>>
             moved == sequence + (IF i = 0 THEN leaf_num ELSE Pow2(Len(proof) - i))
         IN  VerifyLoop(root, proof, leaf_num, i + 1, moved + group, moved, now, Sha256Fed(now))

\* verify, lines 91-118. Line 93 subtracts in usize: with overflow checks
\* (checked) a negative difference panics, without them it wraps.
verify(root, datum, proof, index, leaf_size, checked) ==
    LET height == Len(proof)
        missing == Pow2(height + 1) - 1 - leaf_size
        leaf_num == Pow2(height) - missing
    IN  IF checked /\ (missing < 0 \/ leaf_num < 0)
        THEN [panics |-> TRUE, result |-> FALSE]
        ELSE [panics |-> FALSE,
              result |-> VerifyLoop(root, proof, leaf_num, 0, index, 0, <<>>, datum)]

-----------------------------------------------------------------------------
(* Blocks and the block index *)

GenesisDifficulty == Raw(1)

\* the merkle_root field of a header over no transactions
EmptyRoot == Raw(0)

Header(parent, nonce, difficulty, timestamp, merkle_root) ==
    [parent |-> parent, nonce |-> nonce, difficulty |-> difficulty,
     timestamp |-> timestamp, merkle_root |-> merkle_root]

Block(header, data) == [header |-> header, content |-> data]

Genesis == Block(Header(ZeroHash, 0, GenesisDifficulty, 0, EmptyRoot), <<>>)

GenesisChain ==
    [blockmap |-> Put(EmptyMap, BlockHash(Genesis), Genesis),
     lengthmap |-> Put(EmptyMap, BlockHash(Genesis), 0),
     tip |-> BlockHash(Genesis)]

\* Blockchain::new as written: the root of the tree over no transactions is
\* read before the genesis header is built
BlockchainNew ==
    IF RootPanics(MerkleTreeNew(<<>>))
    THEN [panicked |-> TRUE]
    ELSE [panicked |-> FALSE, chain |-> GenesisChain]

\* insert with the height of the parent copied instead of incremented
BlockchainInsert_NoIncrement(c, block) ==
    LET prev == block.header.parent
        block_hash == BlockHash(block)
        lm == Put(c.lengthmap, block_hash, c.lengthmap[prev])
    IN  [blockmap |-> Put(c.blockmap, block_hash, block),
         lengthmap |-> lm,
         tip |-> IF lm[c.tip] < lm[block_hash] THEN block_hash ELSE c.tip]

\* insert with <= for < in the comparison of line 44
BlockchainInsert_TieSwitches(c, block) ==
    LET prev == block.header.parent
        block_hash == BlockHash(block)
        lm == Put(c.lengthmap, block_hash, c.lengthmap[prev] + 1)
    IN  [blockmap |-> Put(c.blockmap, block_hash, block),
         lengthmap |-> lm,
         tip |-> IF lm[c.tip] <= lm[block_hash] THEN block_hash ELSE c.tip]

\* insert that compares the new block with the height of its parent, not of the tip
BlockchainInsert_ParentCompared(c, block) ==
    LET prev == block.header.parent
        block_hash == BlockHash(block)
        lm == Put(c.lengthmap, block_hash, c.lengthmap[prev] + 1)
    IN  [blockmap |-> Put(c.blockmap, block_hash, block),
         lengthmap |-> lm,
         tip |-> IF lm[prev] < lm[block_hash] THEN block_hash ELSE c.tip]

\* Blockchain::insert, lines 39-47
BlockchainInsert(c, block) ==
    LET prev == block.header.parent
        block_hash == BlockHash(block)
        lm == Put(c.lengthmap, block_hash, c.lengthmap[prev] + 1)
    IN  [blockmap |-> Put(c.blockmap, block_hash, block),
         lengthmap |-> lm,
         tip |-> IF lm[c.tip] < lm[block_hash] THEN block_hash ELSE c.tip]

\* tip() answering the genesis hash whatever the index holds
Tip_Genesis(c) == BlockHash(Genesis)

\* Blockchain::tip
Tip(c) == c.tip

\* stands in the result for a walk that leaves the index or does not end
Diverges == [kind |-> "diverges"]

\* the walk with the parent read before the push: the tip is left out and the
\* zero hash is pushed after genesis
RECURSIVE WalkLongest_ParentFirst(_, _, _)
WalkLongest_ParentFirst(c, trav, fuel) ==
    IF trav = ZeroHash THEN <<>>
    ELSE IF fuel = 0 \/ trav \notin DOMAIN c.blockmap THEN <<Diverges>>
    ELSE <<c.blockmap[trav].header.parent>>
            \o WalkLongest_ParentFirst(c, c.blockmap[trav].header.parent, fuel - 1)

\* the while loop of lines 59-63
RECURSIVE WalkLongest(_, _, _)
WalkLongest(c, trav, fuel) ==
    IF trav = ZeroHash THEN <<>>
    ELSE IF fuel = 0 \/ trav \notin DOMAIN c.blockmap THEN <<Diverges>>
    ELSE <<trav>> \o WalkLongest(c, c.blockmap[trav].header.parent, fuel - 1)

all_blocks_in_longest_chain(c) ==
    WalkLongest(c, c.tip, Cardinality(DOMAIN c.blockmap) + 1)

-----------------------------------------------------------------------------
(* Transactions, the UTXO state and the mempool *)

IcoValue == 10000

SeedKey == "seed"

TxIn(previous_output, index) == [previous_output |-> previous_output, index |-> index]

TxOut(recipient, value) == [recipient |-> recipient, value |-> value]

Transaction(input, output) == [input |-> input, output |-> output]

SignedTransaction(tx, pk, sig) == [transaction |-> tx, public_key |-> pk, signature |-> sig]

StateNew == Put(EmptyMap, <<ZeroHash, 0>>, <<IcoValue, AddressOf(SeedKey)>>)

\* update that inserts the outputs and leaves the spent entries in place
StateUpdate_KeepsInputs(u, stx) ==
    LET output == stx.transaction.output
        tx_hash == SignedHash(stx)
        created == {<<tx_hash, i - 1>> : i \in DOMAIN output}
    IN  [k \in (DOMAIN u) \cup created |->
            IF k \in created THEN <<output[k[2] + 1].value, output[k[2] + 1].recipient>>
            ELSE u[k]]

\* State::update, lines 33-47
StateUpdate(u, stx) ==
    LET input == stx.transaction.input
        output == stx.transaction.output
        removed == Drop(u, {<<input[i].previous_output, input[i].index>> : i \in DOMAIN input})
        tx_hash == SignedHash(stx)
        created == {<<tx_hash, i - 1>> : i \in DOMAIN output}
    IN  [k \in (DOMAIN removed) \cup created |->
            IF k \in created THEN <<output[k[2] + 1].value, output[k[2] + 1].recipient>>
            ELSE removed[k]]

MempoolInsert(m, stx) == Put(m, SignedHash(stx), stx)

\* remove emptying the mempool
MempoolRemove_Clears(m, stx) == IF m = EmptyMap THEN m ELSE EmptyMap

\* Mempool::remove, lines 65-70
MempoolRemove(m, stx) == Drop(m, {SignedHash(stx)})

RECURSIVE SumOutputs(_, _)
SumOutputs(output, i) ==
    IF i > Len(output) THEN 0 ELSE output[i].value + SumOutputs(output, i + 1)

\* the loop over the inputs: stops at the first input that is missing or not owned
RECURSIVE ScanInputs(_, _, _, _, _)
ScanInputs(u, pk, input, i, amount) ==
    IF i > Len(input) THEN [ok |-> TRUE, amount |-> amount]
    ELSE LET key == <<input[i].previous_output, input[i].index>>
         IN  IF key \in DOMAIN u
             THEN IF AddressOf(pk) # u[key][2]
                  THEN [ok |-> FALSE, amount |-> amount + u[key][1]]
                  ELSE ScanInputs(u, pk, input, i + 1, amount + u[key][1])
             ELSE [ok |-> FALSE, amount |-> amount]

\* the validation without the signature check of lines 119-125
CheckTransaction_NoSignature(u, stx) ==
    LET tx == stx.transaction
        scan == ScanInputs(u, stx.public_key, tx.input, 1, 0)
    IN  scan.ok /\ ~(scan.amount < SumOutputs(tx.output, 1))

\* signature check, ownership check, spending check
CheckTransaction(u, stx) ==
    LET tx == stx.transaction
        sigOk == SigVerify(stx.public_key, TxId(tx), stx.signature)
        scan == ScanInputs(u, stx.public_key, tx.input, 1, 0)
    IN  sigOk /\ scan.ok /\ ~(scan.amount < SumOutputs(tx.output, 1))

-----------------------------------------------------------------------------
(* What the network, the API and the random source can supply *)

EasyDifficulty == Raw(3)

Clock == 1

Alice == AddressOf("alice")

SpendIco(to, value) == Transaction(<<TxIn(ZeroHash, 0)>>, <<TxOut(to, value)>>)

txGood == SignedTransaction(SpendIco(Alice, IcoValue), SeedKey, Sign(SpendIco(Alice, IcoValue), SeedKey))

txBadSig == SignedTransaction(SpendIco(Alice, IcoValue), SeedKey, BadSignature)

txNotOwner ==
    SignedTransaction(SpendIco(Alice, IcoValue), "mallory", Sign(SpendIco(Alice, IcoValue), "mallory"))

txOver ==
    SignedTransaction(SpendIco(Alice, IcoValue + 1), SeedKey, Sign(SpendIco(Alice, IcoValue + 1), SeedKey))

\* the ICO output listed twice as input, and twice its value as output
SpendIcoTwice == Transaction(<<TxIn(ZeroHash, 0), TxIn(ZeroHash, 0)>>, <<TxOut(Alice, 2 * IcoValue)>>)

txDup == SignedTransaction(SpendIcoTwice, SeedKey, Sign(SpendIcoTwice, SeedKey))

\* a second, different spend of the ICO output by its owner
txDouble ==
    SignedTransaction(SpendIco(AddressOf("bob"), IcoValue), SeedKey,
                      Sign(SpendIco(AddressOf("bob"), IcoValue), SeedKey))

NetTxs == {txGood, txBadSig, txNotOwner, txOver, txDup, txDouble}

RootOf(data) == IF data = <<>> THEN EmptyRoot ELSE MerkleRoot(MerkleTreeNew(data))

NetBlock(parent, nonce, difficulty, data) ==
    Block(Header(parent, nonce, difficulty, Clock, RootOf(data)), data)

G == BlockHash(Genesis)

bA == NetBlock(G, 0, GenesisDifficulty, <<>>)

bB == NetBlock(BlockHash(bA), 0, GenesisDifficulty, <<>>)

bPow == NetBlock(G, 1, GenesisDifficulty, <<>>)

bDiff == NetBlock(G, 0, EasyDifficulty, <<>>)

bTx == NetBlock(G, 0, GenesisDifficulty, <<txGood>>)

bBadSig == NetBlock(G, 0, GenesisDifficulty, <<txGood, txBadSig>>)

bNotOwner == NetBlock(G, 0, GenesisDifficulty, <<txNotOwner>>)

bOver == NetBlock(G, 0, GenesisDifficulty, <<txOver>>)

bOrphanPow == NetBlock(BlockHash(bA), 1, GenesisDifficulty, <<>>)

\* two transactions that each spend the ICO output
bTwoSpend == NetBlock(G, 0, GenesisDifficulty, <<txGood, txDouble>>)

\* the header of bB, hence its hash, over another content
bSameHeader == Block(bB.header, <<txGood>>)

NetBlocks ==
    {bA, bB, bPow, bDiff, bTx, bBadSig, bNotOwner, bOver, bOrphanPow, bTwoSpend, bSameHeader}

\* one transaction, or an invalid one followed by a valid one
TransactionsMessages == {<<t>> : t \in NetTxs} \cup {<<txBadSig, txGood>>}

\* the transaction the generator thread builds: random keys, a random outpoint
GenTx(byte, index) ==
    LET tx == Transaction(<<TxIn(Raw(byte), index)>>, <<TxOut(AddressOf("fresh"), 5)>>)
    IN  SignedTransaction(tx, "sender", Sign(tx, "sender"))

GenTxs == {GenTx(1, 0)}

StartIntervals == {1}

Signals == {[sig |-> "Start", i |-> i] : i \in StartIntervals} \cup {[sig |-> "Exit", i |-> 0]}

NewBlockHashes(hs) == [type |-> "NewBlockHashes", hashes |-> hs]

NewTransactionHashes(hs) == [type |-> "NewTransactionHashes", hashes |-> hs]

-----------------------------------------------------------------------------
(* Threads and the four mutexes *)

WorkerSeq == <<"w1", "w2">>

Workers == Range(WorkerSeq)

Threads == Workers \cup {"miner", "gen"}

Locks == {"chain", "orphan_buffer", "state", "mempool"}

Free == "none"

Held(t) == {l \in Locks : owner[l] = t}

\* owner and poisoned after thread t lets go of the guards in ls
Released(t, ls) == [l \in Locks |-> IF l \in ls /\ owner[l] = t THEN Free ELSE owner[l]]

Taken(t, l) == [owner EXCEPT ![l] = t]

\* a panic unwinds the thread: every guard it holds is dropped and its mutex poisoned
PanicStep(t) ==
    /\ owner' = [l \in Locks |-> IF owner[l] = t THEN Free ELSE owner[l]]
    /\ poisoned' = [l \in Locks |-> poisoned[l] \/ owner[l] = t]
    /\ pc' = [pc EXCEPT ![t] = "dead"]

NoBlock == Block(Header(ZeroHash, 0, ZeroHash, 0, ZeroHash), <<>>)

Did(op, block) == [op |-> op, block |-> block]

\* bookkeeping: the Transactions message a worker has just gone through
Handled(txs) == [op |-> "transactions", block |-> NoBlock, txs |-> txs]

NoLocals == [left |-> 0, block |-> NoBlock, txs |-> <<>>]

\* server.broadcast(msg)
Broadcast(o, msg) == Put(o, msg, IF msg \in DOMAIN o THEN o[msg] + 1 ELSE 1)

\* the idle workers are interchangeable: the first of them takes the message
FirstIdle(w) ==
    /\ pc[w] = "recv"
    /\ \A i, j \in DOMAIN WorkerSeq : WorkerSeq[j] = w /\ i < j => pc[WorkerSeq[i]] # "recv"

Init ==
    /\ chain = GenesisChain
    /\ buffer = EmptyMap
    /\ utxo = StateNew
    /\ txmap = EmptyMap
    /\ owner = [l \in Locks |-> Free]
    /\ poisoned = [l \in Locks |-> FALSE]
    /\ pc = [t \in Threads |-> IF t \in Workers THEN "recv" ELSE IF t = "miner" THEN "m_top" ELSE "g_sleep"]
    /\ wl = [w \in Workers |-> NoLocals]
    /\ opstate = [tag |-> "Paused", i |-> 0]
    /\ ctl = <<>>
    /\ out = EmptyMap
    /\ count = [msgs |-> 0, ctl |-> 0, gen |-> 0]
    /\ last = Did("none", NoBlock)

-----------------------------------------------------------------------------
(* Gossip worker: worker_loop *)

Data == <<chain, buffer, utxo, txmap>>

Miner == <<opstate, ctl>>

\* msg_chan.recv(): a Blocks message arrives
RecvBlocks(w) ==
    /\ FirstIdle(w)
    /\ count.msgs < MaxMsgs
    /\ \E n \in 1..MaxBlocksPerMsg :
          wl' = [wl EXCEPT ![w] = [left |-> n, block |-> NoBlock, txs |-> <<>>]]
    /\ pc' = [pc EXCEPT ![w] = "b_lock_chain"]
    /\ count' = [count EXCEPT !.msgs = @ + 1]
    /\ UNCHANGED <<Data, owner, poisoned, Miner, out, last>>

\* msg_chan.recv(): a Transactions message arrives
RecvTransactions(w) ==
    /\ FirstIdle(w)
    /\ count.msgs < MaxMsgs
    /\ \E txs \in TransactionsMessages :
          wl' = [wl EXCEPT ![w] = [left |-> 0, block |-> NoBlock, txs |-> txs]]
    /\ pc' = [pc EXCEPT ![w] = "t_lock_mempool"]
    /\ count' = [count EXCEPT !.msgs = @ + 1]
    /\ UNCHANGED <<Data, owner, poisoned, Miner, out, last>>

\* Message::Blocks, line 101: self.chain.lock().unwrap()
BlocksLockChain(w) ==
    /\ pc[w] = "b_lock_chain"
    /\ owner["chain"] = Free
    /\ IF poisoned["chain"]
       THEN PanicStep(w)
       ELSE /\ owner' = Taken(w, "chain")
            /\ pc' = [pc EXCEPT ![w] = "b_loop"]
            /\ UNCHANGED poisoned
    /\ UNCHANGED <<Data, wl, Miner, out, count, last>>

\* the worker is done with the current block of its message
NextBlock(w) == [wl EXCEPT ![w] = [left |-> @.left - 1, block |-> NoBlock, txs |-> <<>>]]

\* the loop without the test of line 108: an indexed block goes on as well
BlocksLoop_NoSkip(w) ==
    /\ pc[w] = "b_loop"
    /\ IF wl[w].left = 0
       THEN /\ owner' = Released(w, {"chain"})
            /\ pc' = [pc EXCEPT ![w] = "recv"]
            /\ wl' = [wl EXCEPT ![w] = NoLocals]
            /\ UNCHANGED last
       ELSE \E block \in NetBlocks :
            /\ wl' = [wl EXCEPT ![w].block = block]
            /\ pc' = [pc EXCEPT ![w] = "b_lock_buffer"]
            /\ UNCHANGED <<owner, last>>
    /\ UNCHANGED <<Data, poisoned, Miner, out, count>>

\* lines 103-108: next block of the message, one of the blocks a peer may
\* have put there; a block already indexed is skipped; after the last one
\* the chain guard goes out of scope
BlocksLoopFrom(w, blocks) ==
    /\ pc[w] = "b_loop"
    /\ IF wl[w].left = 0
       THEN /\ owner' = Released(w, {"chain"})
            /\ pc' = [pc EXCEPT ![w] = "recv"]
            /\ wl' = [wl EXCEPT ![w] = NoLocals]
            /\ UNCHANGED last
       ELSE \E block \in blocks :
            IF BlockHash(block) \in DOMAIN chain.blockmap
            THEN /\ wl' = NextBlock(w)
                 /\ last' = Did("known", block)
                 /\ UNCHANGED <<owner, pc>>
            ELSE /\ wl' = [wl EXCEPT ![w].block = block]
                 /\ pc' = [pc EXCEPT ![w] = "b_lock_buffer"]
                 /\ UNCHANGED <<owner, last>>
    /\ UNCHANGED <<Data, poisoned, Miner, out, count>>

\* the loop over the blocks of NetBlocks
BlocksLoop(w) == BlocksLoopFrom(w, NetBlocks)

\* the test of line 113 without its second half
PowAndDifficultyOk_PowOnly(c, block) ==
    HashLeq(BlockHash(block), block.header.difficulty)

\* line 113: the proof-of-work and fixed-difficulty test
PowAndDifficultyOk(c, block) ==
    /\ HashLeq(BlockHash(block), block.header.difficulty)
    /\ block.header.difficulty = c.blockmap[block.header.parent].header.difficulty

\* the insert keeping the block that is already stored for the parent
BufferInsert_KeepsFirst(buf, block) ==
    IF block.header.parent \in DOMAIN buf THEN buf ELSE Put(buf, block.header.parent, block)

\* line 111: buffer.insert(block.header.parent, block)
BufferInsert(buf, block) == Put(buf, block.header.parent, block)

\* lines 109-113: lock the orphan buffer, then buffer, drop or go on to validation
BlocksLockBuffer(w) ==
    /\ pc[w] = "b_lock_buffer"
    /\ owner["orphan_buffer"] = Free
    /\ IF poisoned["orphan_buffer"]
       THEN PanicStep(w) /\ UNCHANGED <<buffer, wl, last>>
       ELSE LET block == wl[w].block IN
            /\ UNCHANGED poisoned
            /\ IF block.header.parent \notin DOMAIN chain.blockmap
               THEN /\ buffer' = BufferInsert(buffer, block)
                    /\ wl' = NextBlock(w)
                    /\ pc' = [pc EXCEPT ![w] = "b_loop"]
                    /\ last' = Did("buffered", block)
                    /\ UNCHANGED owner
               ELSE IF PowAndDifficultyOk(chain, block)
               THEN /\ owner' = Taken(w, "orphan_buffer")
                    /\ pc' = [pc EXCEPT ![w] = "b_lock_state"]
                    /\ UNCHANGED <<buffer, wl, last>>
               ELSE /\ wl' = NextBlock(w)
                    /\ pc' = [pc EXCEPT ![w] = "b_loop"]
                    /\ last' = Did("dropped", block)
                    /\ UNCHANGED <<buffer, owner>>
    /\ UNCHANGED <<chain, utxo, txmap, Miner, out, count>>

\* lines 115-178: every transaction of the block against the current utxo
ContentValid(u, data) == \A i \in DOMAIN data : CheckTransaction(u, data[i])

\* lines 116-182: lock the state, validate the content; an invalid block is skipped
BlocksLockState(w) ==
    /\ pc[w] = "b_lock_state"
    /\ owner["state"] = Free
    /\ IF poisoned["state"]
       THEN PanicStep(w) /\ UNCHANGED <<wl, last>>
       ELSE /\ UNCHANGED poisoned
            /\ IF ContentValid(utxo, wl[w].block.content)
               THEN /\ owner' = Taken(w, "state")
                    /\ pc' = [pc EXCEPT ![w] = "b_lock_mempool"]
                    /\ UNCHANGED <<wl, last>>
               ELSE /\ owner' = Released(w, {"orphan_buffer"})
                    /\ wl' = NextBlock(w)
                    /\ pc' = [pc EXCEPT ![w] = "b_loop"]
                    /\ last' = Did("rejected", wl[w].block)
    /\ UNCHANGED <<Data, Miner, out, count>>

\* line 183: self.mempool.lock().unwrap()
BlocksLockMempool(w) ==
    /\ pc[w] = "b_lock_mempool"
    /\ owner["mempool"] = Free
    /\ IF poisoned["mempool"]
       THEN PanicStep(w)
       ELSE /\ owner' = Taken(w, "mempool")
            /\ pc' = [pc EXCEPT ![w] = "b_relock_state"]
            /\ UNCHANGED poisoned
    /\ UNCHANGED <<Data, wl, Miner, out, count, last>>

\* line 184: self.state.lock() while the guard of line 116 is still alive.
\* Mutex::lock on a mutex the thread already holds never returns: it blocks
\* forever or panics.
BlocksRelockState(w) ==
    /\ pc[w] = "b_relock_state"
    /\ owner["state"] = w
    /\ \/ /\ pc' = [pc EXCEPT ![w] = "deadlocked"]
          /\ UNCHANGED <<owner, poisoned>>
       \/ PanicStep(w)
    /\ UNCHANGED <<Data, wl, Miner, out, count, last>>

\* Message::Transactions, line 239: self.mempool.lock().unwrap()
TransactionsLockMempool(w) ==
    /\ pc[w] = "t_lock_mempool"
    /\ owner["mempool"] = Free
    /\ IF poisoned["mempool"]
       THEN PanicStep(w)
       ELSE /\ owner' = Taken(w, "mempool")
            /\ pc' = [pc EXCEPT ![w] = "t_lock_state"]
            /\ UNCHANGED poisoned
    /\ UNCHANGED <<Data, wl, Miner, out, count, last>>

\* the loop with the insert outside the if of line 300
RECURSIVE AdmitAll_InsertOutsideIf(_, _, _, _)
AdmitAll_InsertOutsideIf(u, m, o, txs) ==
    IF txs = <<>> THEN [txmap |-> m, out |-> o]
    ELSE LET transaction == Head(txs)
         IN  IF CheckTransaction(u, transaction)
             THEN AdmitAll_InsertOutsideIf(u, MempoolInsert(m, transaction),
                           Broadcast(o, NewTransactionHashes(<<SignedHash(transaction)>>)),
                           Tail(txs))
             ELSE AdmitAll_InsertOutsideIf(u, MempoolInsert(m, transaction), o, Tail(txs))

\* lines 241-308: the loop over the transactions of the message
RECURSIVE AdmitAll(_, _, _, _)
AdmitAll(u, m, o, txs) ==
    IF txs = <<>> THEN [txmap |-> m, out |-> o]
    ELSE LET transaction == Head(txs)
         IN  IF CheckTransaction(u, transaction)
             THEN AdmitAll(u, MempoolInsert(m, transaction),
                           Broadcast(o, NewTransactionHashes(<<SignedHash(transaction)>>)),
                           Tail(txs))
             ELSE AdmitAll(u, m, o, Tail(txs))

\* lines 240-309: lock the state, check and admit each transaction, drop both guards
TransactionsLockState(w) ==
    /\ pc[w] = "t_lock_state"
    /\ owner["state"] = Free
    /\ IF poisoned["state"]
       THEN PanicStep(w) /\ UNCHANGED <<txmap, out, wl, last>>
       ELSE LET r == AdmitAll(utxo, txmap, out, wl[w].txs) IN
            /\ txmap' = r.txmap
            /\ out' = r.out
            /\ wl' = [wl EXCEPT ![w] = NoLocals]
            /\ owner' = Released(w, {"mempool"})
            /\ pc' = [pc EXCEPT ![w] = "recv"]
            /\ last' = Handled(wl[w].txs)
            /\ UNCHANGED poisoned
    /\ UNCHANGED <<chain, buffer, utxo, Miner, count>>

WorkerStep(w) ==
    \/ RecvBlocks(w)
    \/ RecvTransactions(w)
    \/ BlocksLockChain(w)
    \/ BlocksLoop(w)
    \/ BlocksLockBuffer(w)
    \/ BlocksLockState(w)
    \/ BlocksLockMempool(w)
    \/ BlocksRelockState(w)
    \/ TransactionsLockMempool(w)
    \/ TransactionsLockState(w)

-----------------------------------------------------------------------------
(* Miner: miner_loop *)

BlockLimit == 2048

\* bincode length of a SignedTransaction: two vector headers, 33 bytes per
\* input, 28 per output, the 32-byte key and the 64-byte signature with theirs
SerializedSize(stx) ==
    8 + 33 * Len(stx.transaction.input) + 8 + 28 * Len(stx.transaction.output) + 40 + 72

\* the orders in which txmap.keys() may come out
KeyOrders(m) ==
    {f \in [1..Cardinality(DOMAIN m) -> DOMAIN m] : \A i, j \in DOMAIN f : i # j => f[i] # f[j]}

\* the selection that still takes the transaction that does not fit
RECURSIVE SelectTransactions_TakesCrossing(_, _, _, _)
SelectTransactions_TakesCrossing(m, order, i, block_size) ==
    IF i > Len(order) THEN <<>>
    ELSE LET val == m[order[i]]
         IN  IF block_size + SerializedSize(val) > BlockLimit THEN <<val>>
             ELSE <<val>> \o SelectTransactions_TakesCrossing(m, order, i + 1,
                                                              block_size + SerializedSize(val))

\* lines 140-149: take transactions in iteration order until one would not fit
RECURSIVE SelectTransactions(_, _, _, _)
SelectTransactions(m, order, i, block_size) ==
    IF i > Len(order) THEN <<>>
    ELSE LET val == m[order[i]]
         IN  IF block_size + SerializedSize(val) > BlockLimit THEN <<>>
             ELSE <<val>> \o SelectTransactions(m, order, i + 1, block_size + SerializedSize(val))

RECURSIVE RemoveAll(_, _)
RemoveAll(m, data) ==
    IF data = <<>> THEN m ELSE RemoveAll(MempoolRemove(m, Head(data)), Tail(data))

\* the handler with Exit putting the miner back to Paused
handle_control_signal_ExitPauses(signal) ==
    IF signal.sig = "Exit" THEN [tag |-> "Paused", i |-> 0]
    ELSE [tag |-> "Run", i |-> signal.i]

\* Context::handle_control_signal, lines 88-99
handle_control_signal(signal) ==
    IF signal.sig = "Exit" THEN [tag |-> "ShutDown", i |-> 0]
    ELSE [tag |-> "Run", i |-> signal.i]

\* Handle::start / Handle::exit called by the API
ApiSend(signal) ==
    /\ count.ctl < MaxCtl
    /\ pc["miner"] \notin {"returned", "dead"}
    /\ ctl' = Append(ctl, signal)
    /\ count' = [count EXCEPT !.ctl = @ + 1]
    /\ UNCHANGED <<Data, owner, poisoned, pc, wl, opstate, out, last>>

\* lines 111-115: Paused, blocking recv of the next signal
MinerPaused ==
    /\ pc["miner"] = "m_top"
    /\ opstate.tag = "Paused"
    /\ ctl # <<>>
    /\ opstate' = handle_control_signal(Head(ctl))
    /\ ctl' = Tail(ctl)
    /\ UNCHANGED <<Data, owner, poisoned, pc, wl, out, count, last>>

\* lines 116-118: ShutDown, the thread returns
MinerShutDown ==
    /\ pc["miner"] = "m_top"
    /\ opstate.tag = "ShutDown"
    /\ pc' = [pc EXCEPT !["miner"] = "returned"]
    /\ UNCHANGED <<Data, owner, poisoned, wl, Miner, out, count, last>>

\* lines 119-129: Run, try_recv, then return if the signal was Exit
MinerPoll ==
    /\ pc["miner"] = "m_top"
    /\ opstate.tag = "Run"
    /\ LET st == IF ctl # <<>> THEN handle_control_signal(Head(ctl)) ELSE opstate IN
       /\ opstate' = st
       /\ ctl' = IF ctl # <<>> THEN Tail(ctl) ELSE ctl
       /\ pc' = [pc EXCEPT !["miner"] = IF st.tag = "ShutDown" THEN "returned" ELSE "m_lock_chain"]
    /\ UNCHANGED <<Data, owner, poisoned, wl, out, count, last>>

\* line 134: self.chain.lock().unwrap()
MinerLockChain ==
    /\ pc["miner"] = "m_lock_chain"
    /\ owner["chain"] = Free
    /\ IF poisoned["chain"]
       THEN PanicStep("miner")
       ELSE /\ owner' = Taken("miner", "chain")
            /\ pc' = [pc EXCEPT !["miner"] = "m_lock_mempool"]
            /\ UNCHANGED poisoned
    /\ UNCHANGED <<Data, wl, Miner, out, count, last>>

\* lines 135-172: lock the mempool, assemble the candidate and test it
MinerMine ==
    /\ pc["miner"] = "m_lock_mempool"
    /\ owner["mempool"] = Free
    /\ IF poisoned["mempool"]
       THEN PanicStep("miner") /\ UNCHANGED <<chain, txmap, out>>
       ELSE \E order \in KeyOrders(txmap), nonce \in 0..MaxNonce :
            LET parent == Tip(chain)
                difficulty == chain.blockmap[parent].header.difficulty
                transactions == SelectTransactions(txmap, order, 1, 0)
                tree == MerkleTreeNew(transactions)
            IN  IF NewPanics(tree) \/ RootPanics(tree)
                THEN \* the panic of line 150 or 151 unwinds with the mempool
                     \* guard of line 139 alive beside the chain guard
                     /\ owner' = Released("miner", Locks)
                     /\ poisoned' = [l \in Locks |->
                                        poisoned[l] \/ owner[l] = "miner" \/ l = "mempool"]
                     /\ pc' = [pc EXCEPT !["miner"] = "dead"]
                     /\ UNCHANGED <<chain, txmap, out>>
                ELSE LET header == Header(parent, nonce, difficulty, Clock, MerkleRoot(tree))
                         cur_block == Block(header, transactions)
                     IN  /\ IF HashLeq(BlockHash(cur_block), difficulty)
                            THEN /\ txmap' = RemoveAll(txmap, transactions)
                                 /\ chain' = BlockchainInsert(chain, cur_block)
                                 /\ out' = Broadcast(out, NewBlockHashes(<<BlockHash(cur_block)>>))
                            ELSE UNCHANGED <<chain, txmap, out>>
                         /\ owner' = Taken("miner", "mempool")
                         /\ pc' = [pc EXCEPT !["miner"] = "m_sleep"]
                         /\ UNCHANGED poisoned
    /\ UNCHANGED <<buffer, utxo, wl, Miner, count, last>>

\* lines 174-178: more than 300 seconds since the thread started: break
MinerTimeout ==
    /\ pc["miner"] = "m_sleep"
    /\ owner' = Released("miner", {"chain", "mempool"})
    /\ pc' = [pc EXCEPT !["miner"] = "returned"]
    /\ UNCHANGED <<Data, poisoned, wl, Miner, out, count, last>>

\* lines 180-186: sleep for the interval, then the guards go out of scope
MinerSleep ==
    /\ pc["miner"] = "m_sleep"
    /\ owner' = Released("miner", {"chain", "mempool"})
    /\ pc' = [pc EXCEPT !["miner"] = "m_top"]
    /\ UNCHANGED <<Data, poisoned, wl, Miner, out, count, last>>

MinerStep ==
    \/ MinerPaused
    \/ MinerShutDown
    \/ MinerPoll
    \/ MinerLockChain
    \/ MinerMine
    \/ MinerTimeout
    \/ MinerSleep

-----------------------------------------------------------------------------
(* Transaction generator thread of main *)

\* main.rs lines 132-135: lock the mempool, insert, broadcast
GenInsert ==
    /\ pc["gen"] = "g_sleep"
    /\ count.gen < MaxGen
    /\ owner["mempool"] = Free
    /\ IF poisoned["mempool"]
       THEN PanicStep("gen") /\ UNCHANGED <<txmap, out, count>>
       ELSE \E signed_tx \in GenTxs :
            /\ txmap' = MempoolInsert(txmap, signed_tx)
            /\ out' = Broadcast(out, NewTransactionHashes(<<SignedHash(signed_tx)>>))
            /\ count' = [count EXCEPT !.gen = @ + 1]
            /\ UNCHANGED <<owner, poisoned, pc>>
    /\ UNCHANGED <<chain, buffer, utxo, wl, Miner, last>>

-----------------------------------------------------------------------------

Next ==
    \/ \E w \in Workers : WorkerStep(w)
    \/ MinerStep
    \/ GenInsert
    \/ \E signal \in Signals : ApiSend(signal)

Spec == Init /\ [][Next]_vars

-----------------------------------------------------------------------------
(* The rest of the Blocks handler, lines 185-209.  Line 184 never returns, so *)
(* Spec never gets here.  SpecReentrant is the same program with that second  *)
(* state.lock() handing back the guard the worker already holds; it is used   *)
(* to examine what lines 185-209 do to the index, the state and the mempool.  *)

\* lines 185-189 and 197-200: remove from the mempool and apply, one by one
RECURSIVE ApplyAll(_, _)
ApplyAll(st, data) ==
    IF data = <<>> THEN st
    ELSE ApplyAll([txmap |-> MempoolRemove(st.txmap, Head(data)),
                   utxo |-> StateUpdate(st.utxo, Head(data))], Tail(data))

\* the flush without the broadcast of line 203
RECURSIVE FlushOrphans_Silent(_, _)
FlushOrphans_Silent(st, hash) ==
    IF hash \in DOMAIN st.buffer
    THEN LET orphan_block == st.buffer[hash]
             a == ApplyAll([txmap |-> st.txmap, utxo |-> st.utxo], orphan_block.content)
         IN  FlushOrphans_Silent([chain |-> BlockchainInsert(st.chain, orphan_block),
                                  buffer |-> Drop(st.buffer, {hash}),
                                  utxo |-> a.utxo,
                                  txmap |-> a.txmap,
                                  out |-> st.out],
                                 BlockHash(orphan_block))
    ELSE st

\* lines 193-209: while the buffer holds a block under the last inserted hash
RECURSIVE FlushOrphans(_, _)
FlushOrphans(st, hash) ==
    IF hash \in DOMAIN st.buffer
    THEN LET orphan_block == st.buffer[hash]
             a == ApplyAll([txmap |-> st.txmap, utxo |-> st.utxo], orphan_block.content)
         IN  FlushOrphans([chain |-> BlockchainInsert(st.chain, orphan_block),
                           buffer |-> Drop(st.buffer, {hash}),
                           utxo |-> a.utxo,
                           txmap |-> a.txmap,
                           out |-> Broadcast(st.out, NewBlockHashes(<<BlockHash(orphan_block)>>))],
                          BlockHash(orphan_block))
    ELSE st

\* lines 185-192, then the flush
AcceptBlock(c, buf, u, m, o, block) ==
    LET a == ApplyAll([txmap |-> m, utxo |-> u], block.content)
    IN  FlushOrphans([chain |-> BlockchainInsert(c, block),
                      buffer |-> buf,
                      utxo |-> a.utxo,
                      txmap |-> a.txmap,
                      out |-> Broadcast(o, NewBlockHashes(<<BlockHash(block)>>))],
                     BlockHash(block))

BlocksAccept(w) ==
    /\ pc[w] = "b_relock_state"
    /\ owner["state"] = w
    /\ LET r == AcceptBlock(chain, buffer, utxo, txmap, out, wl[w].block) IN
       /\ chain' = r.chain
       /\ buffer' = r.buffer
       /\ utxo' = r.utxo
       /\ txmap' = r.txmap
       /\ out' = r.out
    /\ owner' = Released(w, {"mempool", "state", "orphan_buffer"})
    /\ wl' = NextBlock(w)
    /\ pc' = [pc EXCEPT ![w] = "b_loop"]
    /\ last' = Did("accepted", wl[w].block)
    /\ UNCHANGED <<poisoned, Miner, count>>

WorkerStepReentrant(w) ==
    \/ RecvBlocks(w)
    \/ RecvTransactions(w)
    \/ BlocksLockChain(w)
    \/ BlocksLoop(w)
    \/ BlocksLockBuffer(w)
    \/ BlocksLockState(w)
    \/ BlocksLockMempool(w)
    \/ BlocksAccept(w)
    \/ TransactionsLockMempool(w)
    \/ TransactionsLockState(w)

NextReentrant ==
    \/ \E w \in Workers : WorkerStepReentrant(w)
    \/ MinerStep
    \/ GenInsert
    \/ \E signal \in Signals : ApiSend(signal)

SpecReentrant == Init /\ [][NextReentrant]_vars

-----------------------------------------------------------------------------
(* The block index on its own: Blockchain::new and Blockchain::insert called *)
(* directly, as the unit test of blockchain.rs does.                         *)

\* blocks whose parent is indexed
ChainCandidates(c) ==
    {Block(Header(p, n, GenesisDifficulty, Clock, EmptyRoot), <<>>) :
        p \in {q \in DOMAIN c.blockmap : c.lengthmap[q] < MaxHeight}, n \in 0..MaxNonce}

ChainInsert ==
    /\ \E block \in ChainCandidates(chain) :
          /\ \/ BlockHash(block) \in DOMAIN chain.blockmap
             \/ Cardinality(DOMAIN chain.blockmap) < MaxBlocks
          /\ chain' = BlockchainInsert(chain, block)
          /\ last' = [op |-> "insert", block |-> block, before |-> chain]
    /\ UNCHANGED <<buffer, utxo, txmap, owner, poisoned, pc, wl, Miner, out, count>>

ChainNew ==
    /\ last' = [op |-> "new", block |-> NoBlock, result |-> BlockchainNew]
    /\ UNCHANGED <<Data, owner, poisoned, pc, wl, Miner, out, count>>

NextChain == ChainInsert \/ ChainNew

SpecChain == Init /\ [][NextChain]_vars

-----------------------------------------------------------------------------
(* The miner with its control channel and the generator thread, no message  *)
(* from the network: the API may send any number of signals, of which at    *)
(* most MaxPending wait in the channel.                                      *)

MaxPending == 2

ControlSignals == Signals \cup {[sig |-> "Start", i |-> 2]}

\* Handle::start / Handle::exit, any number of times
ApiSendAgain(signal) ==
    /\ Len(ctl) < MaxPending
    /\ pc["miner"] \notin {"returned", "dead"}
    /\ ctl' = Append(ctl, signal)
    /\ UNCHANGED <<Data, owner, poisoned, pc, wl, opstate, out, count, last>>

NextMiner ==
    \/ MinerStep
    \/ GenInsert
    \/ \E signal \in ControlSignals : ApiSendAgain(signal)

SpecMiner == Init /\ [][NextMiner]_vars

-----------------------------------------------------------------------------
(* The miner started on a mempool that already holds transactions of        *)
(* different sizes, some of which do not fit into one block together.       *)

\* a signed transaction with n outputs: 189 + 28 * (n - 1) bytes
WideTx(n) ==
    LET tx == Transaction(<<TxIn(ZeroHash, 0)>>, [i \in 1..n |-> TxOut(Alice, 1)])
    IN  SignedTransaction(tx, SeedKey, Sign(tx, SeedKey))

\* the mempools the miner may find
Mempools ==
    LET Pool(txs) == [h \in {SignedHash(t) : t \in txs} |->
                         CHOOSE t \in txs : SignedHash(t) = h]
    IN  {Pool({WideTx(1)}),
         Pool({WideTx(30), WideTx(31), WideTx(1)}),
         Pool({WideTx(30), WideTx(36), WideTx(1)}),
         Pool({WideTx(70), WideTx(1)})}

InitSelect ==
    /\ chain = GenesisChain
    /\ buffer = EmptyMap
    /\ utxo = StateNew
    /\ txmap \in Mempools
    /\ owner = [l \in Locks |-> Free]
    /\ poisoned = [l \in Locks |-> FALSE]
    /\ pc = [t \in Threads |-> IF t \in Workers THEN "recv" ELSE IF t = "miner" THEN "m_top" ELSE "g_sleep"]
    /\ wl = [w \in Workers |-> NoLocals]
    /\ opstate = [tag |-> "Paused", i |-> 0]
    /\ ctl = <<>>
    /\ out = EmptyMap
    /\ count = [msgs |-> 0, ctl |-> 0, gen |-> 0]
    /\ last = Did("none", NoBlock)

SpecSelect == InitSelect /\ [][NextMiner]_vars

-----------------------------------------------------------------------------
(* Workers that are handed NewBlockHashes messages, beside the miner, which *)
(* extends the chain and holds the chain mutex while it works.              *)

\* the block the miner assembles on genesis from the generator's transaction
bMined == NetBlock(G, 0, GenesisDifficulty, <<GenTx(1, 0)>>)

\* the lists a peer may announce: up to two hashes, repeated or not
HashLists ==
    LET hs == {G, BlockHash(bA), BlockHash(bMined)}
    IN  {<<>>} \cup {<<h>> : h \in hs} \cup {<<h, k>> : h \in hs, k \in hs}

\* the filter with its test the other way round
Unknown_Known(c, blockhashes) ==
    SelectSeq(blockhashes, LAMBDA hash : hash \in DOMAIN c.blockmap)

\* lines 81-85: the announced hashes that are not keys of blockmap, in order
Unknown(c, blockhashes) ==
    SelectSeq(blockhashes, LAMBDA hash : hash \notin DOMAIN c.blockmap)

\* msg_chan.recv(): a NewBlockHashes message arrives
RecvNewBlockHashes(w) ==
    /\ FirstIdle(w)
    /\ count.msgs < MaxMsgs
    /\ \E blockhashes \in HashLists :
          wl' = [wl EXCEPT ![w] = [left |-> 0, block |-> NoBlock, txs |-> <<>>,
                                   blockhashes |-> blockhashes]]
    /\ pc' = [pc EXCEPT ![w] = "h_lock_chain"]
    /\ count' = [count EXCEPT !.msgs = @ + 1]
    /\ UNCHANGED <<Data, owner, poisoned, Miner, out, last>>

\* Message::NewBlockHashes, lines 76-86: lock the chain, collect the unknown
\* hashes, peer.write(GetBlocks(unknown)); the guard goes out of scope
NewBlockHashesReply(w) ==
    /\ pc[w] = "h_lock_chain"
    /\ owner["chain"] = Free
    /\ IF poisoned["chain"]
       THEN PanicStep(w) /\ UNCHANGED <<out, wl, last>>
       ELSE LET unknown == Unknown(chain, wl[w].blockhashes)
            IN  /\ out' = Broadcast(out, [type |-> "GetBlocks", hashes |-> unknown, to |-> "peer"])
                /\ last' = [op |-> "announced", block |-> NoBlock,
                            blockhashes |-> wl[w].blockhashes]
                /\ pc' = [pc EXCEPT ![w] = "recv"]
                /\ wl' = [wl EXCEPT ![w] = NoLocals]
                /\ UNCHANGED <<owner, poisoned>>
    /\ UNCHANGED <<Data, Miner, count>>

NextHashes ==
    \/ \E w \in Workers : RecvNewBlockHashes(w)
    \/ \E w \in Workers : NewBlockHashesReply(w)
    \/ MinerStep
    \/ GenInsert
    \/ \E signal \in Signals : ApiSend(signal)

SpecHashes == Init /\ [][NextHashes]_vars

-----------------------------------------------------------------------------
(* Orphans of the node's own blocks: a peer sends a block whose parent field *)
(* is the hash of the block this node's miner comes to make.                 *)

\* a block on top of the block the miner makes from the generator's transaction
bOnMined == NetBlock(BlockHash(bMined), 0, GenesisDifficulty, <<>>)

OrphanBlocks == {bA, bOnMined}

OrphanStep(w) ==
    \/ RecvBlocks(w)
    \/ BlocksLockChain(w)
    \/ BlocksLoopFrom(w, OrphanBlocks)
    \/ BlocksLockBuffer(w)
    \/ BlocksLockState(w)
    \/ BlocksLockMempool(w)
    \/ BlocksRelockState(w)

NextOrphan ==
    \/ \E w \in Workers : OrphanStep(w)
    \/ MinerStep
    \/ GenInsert
    \/ \E signal \in Signals : ApiSend(signal)

SpecOrphan == Init /\ [][NextOrphan]_vars

-----------------------------------------------------------------------------
(* The Merkle tree on its own: a tree is built over some data, a proof is   *)
(* taken for one index and verified against the root.                       *)

MaxLeaves == 8

\* an item of data, as the H256 items of gen_merkle_tree_data
Datum(k) == Raw(k)

\* n different items, and n times the same item
LeafData ==
    {[i \in 1..n |-> Datum(i)] : n \in 1..MaxLeaves}
        \cup {[i \in 1..n |-> Datum(1)] : n \in 1..MaxLeaves}

NoTree == [tree |-> <<>>, leaf_num |-> 0, panics |-> FALSE]

MerkleRun(op, data, mt, index, proof, panics, result) ==
    [op |-> op, data |-> data, mt |-> mt, index |-> index, proof |-> proof,
     panics |-> panics, result |-> result]

InitMerkle ==
    /\ chain = GenesisChain
    /\ buffer = EmptyMap
    /\ utxo = StateNew
    /\ txmap = EmptyMap
    /\ owner = [l \in Locks |-> Free]
    /\ poisoned = [l \in Locks |-> FALSE]
    /\ pc = [t \in Threads |-> IF t \in Workers THEN "recv" ELSE IF t = "miner" THEN "m_top" ELSE "g_sleep"]
    /\ wl = [w \in Workers |-> NoLocals]
    /\ opstate = [tag |-> "Paused", i |-> 0]
    /\ ctl = <<>>
    /\ out = EmptyMap
    /\ count = [msgs |-> 0, ctl |-> 0, gen |-> 0]
    /\ \E data \in LeafData : last = MerkleRun("data", data, NoTree, 0, <<>>, FALSE, FALSE)

Rest == <<chain, buffer, utxo, txmap, owner, poisoned, pc, wl, opstate, ctl, out, count>>

\* MerkleTree::new(&data)
MerkleBuild ==
    /\ last.op = "data"
    /\ last' = [last EXCEPT !.op = "tree", !.mt = MerkleTreeNew(last.data)]
    /\ UNCHANGED Rest

\* merkle_tree.proof(index)
MerkleProve ==
    /\ last.op = "tree"
    /\ ~NewPanics(last.mt)
    /\ \E index \in 0..(Len(last.data) - 1) :
          LET run == MerkleProof(last.mt, index)
          IN  last' = [last EXCEPT !.op = "proof", !.index = index,
                                   !.proof = run.proof, !.panics = run.panics]
    /\ UNCHANGED Rest

\* verify(&merkle_tree.root(), &data[index].hash(), &proof, index, data.len()),
\* in a build with overflow checks or without
MerkleVerify ==
    /\ last.op = "proof"
    /\ ~last.panics
    /\ \E checked \in BOOLEAN :
          LET run == verify(MerkleRoot(last.mt), SignedHash(last.data[last.index + 1]),
                            last.proof, last.index, Len(last.data), checked)
          IN  last' = [last EXCEPT !.op = "verified", !.panics = run.panics,
                                   !.result = run.result]
    /\ UNCHANGED Rest

NextMerkle ==
    \/ MerkleBuild
    \/ MerkleProve
    \/ MerkleVerify

SpecMerkle == InitMerkle /\ [][NextMerkle]_vars

-----------------------------------------------------------------------------
(* Workers that are handed Transactions messages and bytes that are not the *)
(* encoding of a Message.                                                    *)

\* bookkeeping: the n-th delivery was of bytes that do not decode
Undecoded(n) == [op |-> "malformed", block |-> NoBlock, n |-> n]

\* lines 65-67: msg_chan.recv() hands over bytes on which bincode::deserialize
\* returns Err, and unwrap() panics; the worker holds no guard there
RecvMalformed(w) ==
    /\ FirstIdle(w)
    /\ count.msgs < MaxMsgs
    /\ count' = [count EXCEPT !.msgs = @ + 1]
    /\ PanicStep(w)
    /\ last' = Undecoded(count.msgs + 1)
    /\ UNCHANGED <<Data, wl, Miner, out>>

\* worker_loop, the Message::Transactions arm
TransactionsStep(w) ==
    \/ RecvTransactions(w)
    \/ TransactionsLockMempool(w)
    \/ TransactionsLockState(w)

NextBytes ==
    \/ \E w \in Workers : RecvMalformed(w)
    \/ \E w \in Workers : TransactionsStep(w)

SpecBytes == Init /\ [][NextBytes]_vars

-----------------------------------------------------------------------------
(* The miner beside workers that are handed Blocks messages only, with the  *)
(* API sending any number of signals, and every thread scheduled fairly.    *)

\* worker_loop, the Message::Blocks arm
BlocksStep(w) ==
    \/ RecvBlocks(w)
    \/ BlocksLockChain(w)
    \/ BlocksLoop(w)
    \/ BlocksLockBuffer(w)
    \/ BlocksLockState(w)
    \/ BlocksLockMempool(w)
    \/ BlocksRelockState(w)

NextExit ==
    \/ \E w \in Workers : BlocksStep(w)
    \/ MinerStep
    \/ GenInsert
    \/ \E signal \in Signals : ApiSendAgain(signal)

FairSpecExit ==
    /\ Init /\ [][NextExit]_vars
    /\ \A w \in Workers : WF_vars(BlocksStep(w))
    /\ WF_vars(MinerStep)
    /\ WF_vars(GenInsert)

\* OS threads: every thread that can take a step eventually takes one
FairSpec ==
    /\ Spec
    /\ \A w \in Workers : WF_vars(WorkerStep(w))
    /\ WF_vars(MinerStep)
    /\ WF_vars(GenInsert)

-----------------------------------------------------------------------------
(* Lock order *)

LockRank == [chain |-> 1, orphan_buffer |-> 2, state |-> 3, mempool |-> 4]

\* the mutex a thread is asking for at its current position, if any
Requested(t) ==
    CASE pc[t] \in {"b_lock_chain", "m_lock_chain"} -> {"chain"}
      [] pc[t] = "b_lock_buffer" -> {"orphan_buffer"}
      [] pc[t] \in {"b_lock_state", "b_relock_state", "t_lock_state", "deadlocked"} -> {"state"}
      [] pc[t] \in {"b_lock_mempool", "t_lock_mempool", "m_lock_mempool"} -> {"mempool"}
      [] OTHER -> {}

\* t waits for a mutex that u holds
WaitsFor(t, u) == \E l \in Requested(t) : owner[l] = u

\* every thread of the set waits for a mutex held by a thread of the set
CircularWait(S) == S # {} /\ \A t \in S : \E u \in S : WaitsFor(t, u)

\* C1: every thread that holds some of the four locks asks only for a lock
\* that comes later in the order chain, orphan_buffer, state, mempool than
\* every lock it holds, and no set of threads is ever waiting on one another.
C1_LockOrderRespected ==
    /\ \A t \in Threads : \A l \in Held(t) : \A r \in Requested(t) : LockRank[l] < LockRank[r]
    /\ ~ \E S \in SUBSET Threads : CircularWait(S)

\* two workers, one in Blocks and one in Transactions, each waiting for the other
C1_TwoWorkersDeadlocked ==
    \E t, u \in Workers :
        /\ t # u
        /\ pc[t] = "b_lock_mempool" /\ owner["mempool"] = u
        /\ pc[u] = "t_lock_state" /\ owner["state"] = t

-----------------------------------------------------------------------------
(* Completion of the Blocks handler *)

\* worker w has a block in hand that passed lines 108-178: not indexed, parent
\* indexed, proof of work and difficulty right, every transaction valid
AcceptingBlock(w, b) ==
    /\ pc[w] = "b_lock_mempool"
    /\ wl[w].block = b
    /\ BlockHash(b) \notin DOMAIN chain.blockmap
    /\ b.header.parent \in DOMAIN chain.blockmap
    /\ PowAndDifficultyOk(chain, b)
    /\ ContentValid(utxo, b.content)

\* w is through with b: b is indexed, its transactions are out of the mempool
\* and applied, and w holds none of the four locks
AcceptedBlock(w, b) ==
    /\ BlockHash(b) \in DOMAIN chain.blockmap
    /\ \A i \in DOMAIN b.content :
          /\ SignedHash(b.content[i]) \notin DOMAIN txmap
          /\ <<SignedHash(b.content[i]), 0>> \in DOMAIN utxo
    /\ Held(w) = {}

\* C2: a worker that has validated a delivered block (here the block bTx with
\* one valid transaction) eventually finishes the handler, with the block in
\* blockmap, its transaction removed from the mempool and applied, and all
\* four locks released.
C2_BlocksHandlerCompletes ==
    \A w \in Workers : AcceptingBlock(w, bTx) ~> AcceptedBlock(w, bTx)

-----------------------------------------------------------------------------
(* The block index *)

\* C3: genesis is at height 0, and every other block of blockmap has its
\* parent in blockmap and a height one more than its parent's, whatever the
\* miner and the workers (direct acceptance and orphan flush) have inserted.
C3_ParentAndHeight ==
    /\ DOMAIN chain.lengthmap = DOMAIN chain.blockmap
    /\ chain.lengthmap[G] = 0
    /\ \A h \in DOMAIN chain.blockmap \ {G} :
          LET p == chain.blockmap[h].header.parent IN
          /\ p \in DOMAIN chain.blockmap
          /\ chain.lengthmap[h] = chain.lengthmap[p] + 1

\* the index holds a block accepted directly, a block flushed from the orphan
\* buffer on top of it, and a block the miner made
C3_MinedAcceptedAndFlushed ==
    /\ BlockHash(bA) \in DOMAIN chain.blockmap
    /\ BlockHash(bB) \in DOMAIN chain.blockmap
    /\ chain.lengthmap[BlockHash(bB)] = 2
    /\ \E h \in DOMAIN chain.blockmap : chain.blockmap[h] \notin NetBlocks \cup {Genesis}

\* C4: the tip is a block of blockmap and no block of the index is higher
\* than it; an insertion of a block that is exactly as high as the tip was
\* leaves the tip where it was.
C4_TipHighestFirstSeen ==
    /\ chain.tip \in DOMAIN chain.blockmap
    /\ \A h \in DOMAIN chain.lengthmap : chain.lengthmap[h] <= chain.lengthmap[chain.tip]
    /\ (/\ last.op = "insert"
        /\ chain.lengthmap[BlockHash(last.block)] = last.before.lengthmap[last.before.tip])
       => chain.tip = last.before.tip

\* a new block has just been inserted beside the tip, at the tip's height
C4_TieSeen ==
    /\ last.op = "insert"
    /\ BlockHash(last.block) \notin DOMAIN last.before.blockmap
    /\ BlockHash(last.block) # chain.tip
    /\ chain.lengthmap[BlockHash(last.block)] = chain.lengthmap[chain.tip]
    /\ chain.lengthmap[chain.tip] >= 1

\* C5: inserting a block that the index already holds leaves blockmap, the
\* height map and the tip exactly as they were before that insertion.
C5_ReinsertChangesNothing ==
    (/\ last.op = "insert"
     /\ BlockHash(last.block) \in DOMAIN last.before.blockmap
     /\ last.before.blockmap[BlockHash(last.block)] = last.block)
    => chain = last.before

\* a block other than the tip has just been inserted again, after other insertions
C5_ReinsertedBesideTip ==
    /\ last.op = "insert"
    /\ BlockHash(last.block) \in DOMAIN last.before.blockmap
    /\ BlockHash(last.block) # last.before.tip
    /\ Cardinality(DOMAIN last.before.blockmap) >= 3

\* C6: Blockchain::new() returns, and what it returns holds exactly the
\* genesis block (zero parent, nonce 0, timestamp 0, root of the empty
\* content) at height 0, with that block as the tip and as the whole longest
\* chain.
C6_NewYieldsGenesisOnly ==
    last.op = "new" =>
        /\ ~ last.result.panicked
        /\ DOMAIN last.result.chain.blockmap = {G}
        /\ last.result.chain.blockmap[G] = Genesis
        /\ Genesis.header.parent = ZeroHash
        /\ Genesis.header.nonce = 0
        /\ Genesis.header.timestamp = 0
        /\ Genesis.header.merkle_root = RootOf(<<>>)
        /\ last.result.chain.lengthmap[G] = 0
        /\ Tip(last.result.chain) = G
        /\ all_blocks_in_longest_chain(last.result.chain) = <<G>>

\* C7: an insertion of a block on top of the tip makes that block the tip;
\* the walk of all_blocks_in_longest_chain ends, starts at the tip, follows
\* the parent links, ends at genesis and has height(tip) + 1 entries.
C7_LongestChainFromTip ==
    /\ (last.op = "insert" /\ last.block.header.parent = last.before.tip)
       => chain.tip = BlockHash(last.block)
    /\ LET walk == all_blocks_in_longest_chain(chain) IN
       /\ \A i \in DOMAIN walk : walk[i] # Diverges
       /\ Len(walk) = chain.lengthmap[chain.tip] + 1
       /\ walk[1] = chain.tip
       /\ walk[Len(walk)] = G
       /\ \A i \in 1..(Len(walk) - 1) : chain.blockmap[walk[i]].header.parent = walk[i + 1]

\* a block has just been inserted on top of a tip that was itself above genesis
C7_TipExtended ==
    /\ last.op = "insert"
    /\ last.block.header.parent = last.before.tip
    /\ last.before.tip # G
    /\ chain.tip = BlockHash(last.block)

-----------------------------------------------------------------------------
(* Blocks that are turned away *)

\* the parent of b is indexed, and b fails the proof of work or differs from
\* its parent in difficulty
BadPowOrDifficulty(c, b) ==
    /\ b.header.parent \in DOMAIN c.blockmap
    /\ \/ HashValue(BlockHash(b)) > HashValue(b.header.difficulty)
       \/ b.header.difficulty # c.blockmap[b.header.parent].header.difficulty

\* C8: when a worker deals with a delivered block whose parent is indexed and
\* whose hash is above its difficulty, or whose difficulty is not its
\* parent's, the block index, the UTXO state, the mempool and the orphan
\* buffer stay as they are, nothing is broadcast, and the worker does not go
\* on to validate the block: it is back at the head of the loop.
C8_BadPowOrDifficultyDropped ==
    [][\A w \in Workers :
          (/\ pc[w] = "b_lock_buffer"
           /\ pc'[w] # pc[w]
           /\ BadPowOrDifficulty(chain, wl[w].block))
          => /\ UNCHANGED <<chain, buffer, utxo, txmap, out>>
             /\ pc'[w] \in {"b_loop", "dead"}
             /\ pc'[w] = "b_loop" => wl'[w].left = wl[w].left - 1]_vars

\* a block with the difficulty of its own choosing has just been dropped
C8_WrongDifficultyDropped ==
    /\ last = Did("dropped", bDiff)
    /\ BadPowOrDifficulty(chain, bDiff)
    /\ BlockHash(bDiff) \notin DOMAIN chain.blockmap

RECURSIVE SpentValue(_, _, _)
SpentValue(u, input, i) ==
    IF i > Len(input) THEN 0
    ELSE u[<<input[i].previous_output, input[i].index>>][1] + SpentValue(u, input, i + 1)

\* stx fails the signature, the ownership or the conservation rule against u
FailsValidation(u, stx) ==
    LET tx == stx.transaction
        keys == {<<tx.input[i].previous_output, tx.input[i].index>> : i \in DOMAIN tx.input}
    IN  \/ ~ SigVerify(stx.public_key, Sha256d(tx), stx.signature)
        \/ \E k \in keys : k \notin DOMAIN u \/ u[k][2] # AddressOf(stx.public_key)
        \/ /\ keys \subseteq DOMAIN u
           /\ SpentValue(u, tx.input, 1) < SumOutputs(tx.output, 1)

\* C10: when a worker validates a delivered block of which some transaction
\* fails the signature, ownership or conservation rule against the current
\* UTXO state, the block index, the UTXO state and the mempool stay as they
\* are, nothing is broadcast, and the worker is back at the head of the loop
\* with one block fewer to go.
C10_InvalidContentRejected ==
    [][\A w \in Workers :
          (/\ pc[w] = "b_lock_state"
           /\ pc'[w] # pc[w]
           /\ \E i \in DOMAIN wl[w].block.content : FailsValidation(utxo, wl[w].block.content[i]))
          => /\ UNCHANGED <<chain, utxo, txmap, out>>
             /\ pc'[w] \in {"b_loop", "dead"}
             /\ pc'[w] = "b_loop" => wl'[w].left = wl[w].left - 1]_vars

\* a block whose second transaction carries a bad signature has just been rejected
C10_BadSignatureRejected ==
    /\ last = Did("rejected", bBadSig)
    /\ FailsValidation(utxo, bBadSig.content[2])
    /\ BlockHash(bBadSig) \notin DOMAIN chain.blockmap

-----------------------------------------------------------------------------
(* Transactions messages *)

\* how many times msg has been handed to broadcast
BroadcastCount(o, msg) == IF msg \in DOMAIN o THEN o[msg] ELSE 0

\* the positions of txs whose transaction passes all three rules against u
PassingIn(u, txs) == {j \in DOMAIN txs : ~ FailsValidation(u, txs[j])}

\* C11: the Transactions handler never changes the UTXO state; when it has
\* gone through its message, the mempool has gained exactly the transactions
\* of the message that pass the signature, ownership and conservation rules
\* against the UTXO state, and NewTransactionHashes([hash]) has been
\* broadcast once for each of them and for nothing else.
C11_AdmittedIffValid ==
    [][\A w \in Workers :
          (pc[w] \in {"t_lock_mempool", "t_lock_state"} /\ pc'[w] # pc[w])
          => /\ utxo' = utxo
             /\ IF pc'[w] = "recv"
                THEN LET txs == wl[w].txs
                         ok == PassingIn(utxo, txs)
                         hashes == {SignedHash(txs[j]) : j \in ok}
                     IN  /\ DOMAIN txmap' = DOMAIN txmap \cup hashes
                         /\ \A j \in ok : txmap'[SignedHash(txs[j])] = txs[j]
                         /\ \A h \in DOMAIN txmap \ hashes : txmap'[h] = txmap[h]
                         /\ \A msg \in DOMAIN out \cup DOMAIN out' :
                               BroadcastCount(out', msg) = BroadcastCount(out, msg)
                                 + Cardinality({j \in ok :
                                       NewTransactionHashes(<<SignedHash(txs[j])>>) = msg})
                ELSE UNCHANGED <<txmap, out>>]_vars

\* a worker is back from a message of an invalid and a valid transaction: the
\* valid one is in the mempool and announced, the invalid one is neither
C11_ValidAdmittedInvalidNot ==
    /\ last = Handled(<<txBadSig, txGood>>)
    /\ SignedHash(txGood) \in DOMAIN txmap
    /\ BroadcastCount(out, NewTransactionHashes(<<SignedHash(txGood)>>)) = 1
    /\ SignedHash(txBadSig) \notin DOMAIN txmap
    /\ BroadcastCount(out, NewTransactionHashes(<<SignedHash(txBadSig)>>)) = 0
    /\ utxo = StateNew

-----------------------------------------------------------------------------
(* Conservation of value *)

\* the sum of the values of the entries of u under the keys
RECURSIVE SumValues(_, _)
SumValues(u, keys) ==
    IF keys = {} THEN 0
    ELSE LET k == CHOOSE x \in keys : TRUE
         IN  u[k][1] + SumValues(u, keys \ {k})

\* the outputs of stx are worth no more than the entries of u its inputs consume
Conserves(u, stx) ==
    LET tx == stx.transaction
        keys == {<<tx.input[i].previous_output, tx.input[i].index>> : i \in DOMAIN tx.input}
    IN  /\ keys \subseteq DOMAIN u
        /\ SumOutputs(tx.output, 1) <= SumValues(u, keys)

\* C12: every transaction a worker admits to the mempool has outputs whose
\* sum is at most the sum of the values of the distinct UTXO entries that its
\* inputs consume, however the inputs are listed.
C12_AdmittedConserves ==
    [][\A w \in Workers :
          (pc[w] = "t_lock_state" /\ pc'[w] = "recv")
          => \A h \in DOMAIN txmap' \ DOMAIN txmap : Conserves(utxo, txmap'[h])]_vars

-----------------------------------------------------------------------------
(* Application of transactions to the UTXO state *)

\* State::update of stx on u removes one entry per listed input, each of them
\* present in u, and adds one new entry per output
AppliesExactly(u, stx) ==
    LET tx == stx.transaction
        after == StateUpdate(u, stx)
    IN  /\ \A i \in DOMAIN tx.input :
              <<tx.input[i].previous_output, tx.input[i].index>> \in DOMAIN u
        /\ Cardinality(DOMAIN u \ DOMAIN after) = Len(tx.input)
        /\ Cardinality(DOMAIN after \ DOMAIN u) = Len(tx.output)

\* the same for the transactions of data applied one after another
RECURSIVE AppliesExactlyAll(_, _)
AppliesExactlyAll(u, data) ==
    IF data = <<>> THEN TRUE
    ELSE AppliesExactly(u, Head(data)) /\ AppliesExactlyAll(StateUpdate(u, Head(data)), Tail(data))

\* the transactions of the orphans that a flush starting at hash takes out of buf
RECURSIVE FlushedContent(_, _)
FlushedContent(buf, hash) ==
    IF hash \in DOMAIN buf
    THEN buf[hash].content \o FlushedContent(Drop(buf, {hash}), BlockHash(buf[hash]))
    ELSE <<>>

-----------------------------------------------------------------------------
(* Double spend *)

\* stx lists the outpoint among its inputs
Spends(stx, outpoint) ==
    \E i \in DOMAIN stx.transaction.input :
        <<stx.transaction.input[i].previous_output, stx.transaction.input[i].index>> = outpoint

\* the first output of stx is in u: stx has been applied
AppliedTo(u, stx) == <<SignedHash(stx), 0>> \in DOMAIN u

\* C14: once a transaction t1 that spends the outpoint (zero hash, 0) has been
\* applied to the UTXO state, a Transactions message with a different
\* transaction t2 that spends the same outpoint adds nothing to the mempool
\* for t2 and broadcasts no NewTransactionHashes for it.
C14_DoubleSpendRejected ==
    [][\A w \in Workers :
          (pc[w] = "t_lock_state" /\ pc'[w] # pc[w])
          => \A j \in DOMAIN wl[w].txs : \A t1 \in NetTxs :
                LET t2 == wl[w].txs[j]
                    msg == NewTransactionHashes(<<SignedHash(t2)>>)
                IN  (/\ t1 # t2
                     /\ Spends(t1, <<ZeroHash, 0>>)
                     /\ Spends(t2, <<ZeroHash, 0>>)
                     /\ AppliedTo(utxo, t1))
                    => /\ SignedHash(t2) \in DOMAIN txmap' => SignedHash(t2) \in DOMAIN txmap
                       /\ BroadcastCount(out', msg) = BroadcastCount(out, msg)]_vars

\* txGood has been applied, and a worker has then gone through a message with
\* the other spend of the same outpoint, which is not in the mempool
C14_SecondSpendTurnedAway ==
    /\ last = Handled(<<txDouble>>)
    /\ AppliedTo(utxo, txGood)
    /\ SignedHash(txDouble) \notin DOMAIN txmap
    /\ BroadcastCount(out, NewTransactionHashes(<<SignedHash(txDouble)>>)) = 0

-----------------------------------------------------------------------------
(* Miner *)

\* every output of stx is in u
OutputsIn(u, stx) ==
    \A k \in DOMAIN stx.transaction.output : <<SignedHash(stx), k - 1>> \in DOMAIN u

\* C15: in the miner step that finds a block with hash <= difficulty, the
\* block goes into the chain, each of its transactions leaves the mempool and
\* has its outputs in the UTXO state afterwards, and NewBlockHashes([hash])
\* is broadcast once.
C15_MinedBlockApplied ==
    [][(pc["miner"] = "m_lock_mempool" /\ chain' # chain)
       => \E h \in DOMAIN chain'.blockmap \ DOMAIN chain.blockmap :
             LET data == chain'.blockmap[h].content
                 msg == NewBlockHashes(<<h>>)
             IN  /\ \A i \in DOMAIN data : SignedHash(data[i]) \notin DOMAIN txmap'
                 /\ \A i \in DOMAIN data : OutputsIn(utxo', data[i])
                 /\ BroadcastCount(out', msg) = BroadcastCount(out, msg) + 1]_vars

\* the operating state that a control signal asks for
AskedFor(signal) ==
    IF signal.sig = "Start" THEN [tag |-> "Run", i |-> signal.i]
    ELSE [tag |-> "ShutDown", i |-> 0]

\* the miner is between taking the chain lock and the end of an iteration
Assembling == pc["miner"] \in {"m_lock_chain", "m_lock_mempool", "m_sleep"}

\* C16: the miner starts Paused; its operating state changes only by taking
\* the oldest signal out of the channel, Start(i) giving Run(i) from Paused
\* and from Run, Exit giving ShutDown from Paused and from Run; after
\* ShutDown it takes no further signal; it is assembling a block, and the
\* chain changes, only while it is in Run.
C16_ControlStateMachine ==
    /\ opstate = [tag |-> "Paused", i |-> 0]
    /\ [][/\ (opstate' # opstate \/ Len(ctl') < Len(ctl))
             => /\ ctl # <<>>
                /\ ctl' = Tail(ctl)
                /\ opstate.tag \in {"Paused", "Run"}
                /\ opstate' = AskedFor(Head(ctl))
          /\ Len(ctl') > Len(ctl) => \E signal \in ControlSignals : ctl' = Append(ctl, signal)
          /\ Assembling' => opstate'.tag = "Run"
          /\ chain' # chain => opstate.tag = "Run" /\ opstate'.tag = "Run"]_vars

\* the miner has mined a block in Run and has then returned on Exit
C16_ExitAfterMining ==
    /\ pc["miner"] = "returned"
    /\ opstate.tag = "ShutDown"
    /\ ctl = <<>>
    /\ Cardinality(DOMAIN chain.blockmap) = 2

\* an Exit signal is waiting in the control channel
ExitSent == \E k \in 1..Len(ctl) : ctl[k].sig = "Exit"

\* the miner thread has ended, by returning from miner_loop or by a panic
MinerEnded == pc["miner"] \in {"returned", "dead"}

\* C17: with every thread scheduled fairly, once Exit is in the control
\* channel the miner thread eventually ends, whatever the workers do.
C17_ExitEndsMiner == ExitSent ~> MinerEnded

\* Exit is waiting while the running miner asks for the chain lock, which a
\* worker stopped at line 184 of worker.rs holds for ever
C17_MinerBlockedBehindWorker ==
    /\ ExitSent
    /\ pc["miner"] = "m_lock_chain"
    /\ opstate.tag = "Run"
    /\ \E w \in Workers : pc[w] = "deadlocked" /\ owner["chain"] = w

-----------------------------------------------------------------------------
(* Malformed messages *)

\* the step in which a worker takes bytes that do not decode
MalformedDelivery == last' # last /\ last'.op = "malformed"

\* C18: a worker that receives bytes that do not deserialize stays in its
\* loop, where it was, ready for the next message, and chain, orphan buffer,
\* state and mempool are unchanged.
C18_MalformedDropped ==
    [][MalformedDelivery => pc' = pc /\ UNCHANGED <<chain, buffer, utxo, txmap>>]_vars

\* every worker has ended on malformed bytes: nobody is left to receive
C18_NoWorkerLeft ==
    /\ \A w \in Workers : pc[w] = "dead"
    /\ last.op = "malformed"
    /\ \A l \in Locks : ~poisoned[l]

-----------------------------------------------------------------------------
(* Merkle tree *)

\* C19: for 1 to 5 items and every index, verifying the proof of that index
\* against the root of the tree, with the hash of the item, returns true.
C19_ProofVerifies ==
    (last.op = "verified" /\ Len(last.data) \in 1..5) => ~last.panics /\ last.result

\* the proof itself is the list of siblings on the way up: folding it from
\* the leaf, each round in a fresh context, gives the root
RECURSIVE FoldUp(_, _, _, _)
FoldUp(trace, proof, k, position) ==
    IF k > Len(proof) THEN trace
    ELSE FoldUp(IF position % 2 = 1 THEN Sha256Pair(proof[k], trace)
                ELSE Sha256Pair(trace, proof[k]),
                proof, k + 1, position \div 2)

\* three items, index 0: the proof folds up to the root, and verify has
\* answered false
C19_GoodProofTurnedDown ==
    /\ last.op = "verified"
    /\ Len(last.data) = 3
    /\ last.index = 0
    /\ ~last.panics
    /\ ~last.result
    /\ FoldUp(SignedHash(last.data[1]), last.proof, 1, 0) = MerkleRoot(last.mt)

\* a row with its last element repeated when its length is odd and not 1
RefPad(row) ==
    IF Len(row) % 2 = 1 /\ Len(row) # 1 THEN Append(row, row[Len(row)]) ELSE row

\* the row of the hashes of the adjacent pairs
RefPairs(row) == [k \in 1..(Len(row) \div 2) |-> Sha256Pair(row[2 * k - 1], row[2 * k])]

RECURSIVE RefReduce(_)
RefReduce(row) == IF Len(row) = 1 THEN row[1] ELSE RefReduce(RefPad(RefPairs(row)))

RefRoot(data) == RefReduce(RefPad([i \in 1..Len(data) |-> SignedHash(data[i])]))

\* C20: for 1 to 8 items the tree is built and its root is the root of the
\* reference construction (pad an odd row, hash adjacent pairs, repeat).
C20_RootIsReference ==
    last.op # "data" =>
        /\ ~NewPanics(last.mt)
        /\ ~RootPanics(last.mt)
        /\ MerkleRoot(last.mt) = RefRoot(last.data)

\* six items: MerkleTree::new has panicked
C20_SixLeavesPanic ==
    /\ last.op = "tree"
    /\ Len(last.data) = 6
    /\ NewPanics(last.mt)

-----------------------------------------------------------------------------
(* Miner iterations *)

\* the blocks that a step adds to blockmap
Added == {chain'.blockmap[h] : h \in DOMAIN chain'.blockmap \ DOMAIN chain.blockmap}

\* the miner, holding the two guards, assembles and tests a candidate
MinerAssembles ==
    /\ pc["miner"] = "m_lock_mempool"
    /\ pc'["miner"] # "m_lock_mempool"
    /\ ~poisoned["mempool"]

\* C21: a miner iteration that runs while the mempool is empty builds a
\* candidate with empty content and the root of the empty tree (the root the
\* genesis block carries), tests it and goes on to the end of the iteration.
C21_EmptyMempoolIteration ==
    [][(MinerAssembles /\ txmap = EmptyMap)
          => /\ pc'["miner"] = "m_sleep"
             /\ \A b \in Added : b.content = <<>> /\ b.header.merkle_root = EmptyRoot]_vars

\* the miner has ended by a panic in its first iteration, with the mempool
\* empty and the two mutexes it held poisoned
C21_MinerPanickedOnEmptyMempool ==
    /\ pc["miner"] = "dead"
    /\ opstate.tag = "Run"
    /\ txmap = EmptyMap
    /\ poisoned["chain"]
    /\ poisoned["mempool"]
    /\ count.gen = 0

-----------------------------------------------------------------------------
(* Orphans *)

\* the block b waits in the orphan buffer for its parent
Orphaned(b) ==
    /\ b.header.parent \in DOMAIN buffer
    /\ buffer[b.header.parent] = b
    /\ BlockHash(b) \notin DOMAIN chain.blockmap

\* parent and child are both indexed, the child one above its parent, each
\* hash announced, and nothing waits for the parent any more
FlushedAfter(parent, child) ==
    /\ {BlockHash(parent), BlockHash(child)} \subseteq DOMAIN chain.blockmap
    /\ chain.lengthmap[BlockHash(child)] = chain.lengthmap[BlockHash(parent)] + 1
    /\ BlockHash(parent) \notin DOMAIN buffer
    /\ BroadcastCount(out, NewBlockHashes(<<BlockHash(parent)>>)) >= 1
    /\ BroadcastCount(out, NewBlockHashes(<<BlockHash(child)>>)) >= 1

\* C22: with bB buffered while its parent bA was unknown, a worker that then
\* holds the valid block bA eventually has inserted bA and then bB, announced
\* both hashes and emptied the buffer entry.
C22_OrphanThenParent ==
    \A w \in Workers : (Orphaned(bB) /\ AcceptingBlock(w, bA)) ~> FlushedAfter(bA, bB)

\* bB is buffered and the worker holding its parent has stopped at line 184
C22_ParentStuckOrphanWaiting ==
    /\ Orphaned(bB)
    /\ \E w \in Workers : pc[w] = "deadlocked" /\ wl[w].block = bA
    /\ BlockHash(bA) \notin DOMAIN chain.blockmap

-----------------------------------------------------------------------------
(* Announcements *)

\* the hashes of hs that blockmap of c has no key for, in the order of hs
RECURSIVE NotIndexed(_, _)
NotIndexed(c, hs) ==
    IF hs = <<>> THEN <<>>
    ELSE (IF Head(hs) \in DOMAIN c.blockmap THEN <<>> ELSE <<Head(hs)>>)
             \o NotIndexed(c, Tail(hs))

\* C23: the step in which a worker answers NewBlockHashes(hs) hands exactly
\* one message to the network, GetBlocks to the announcing peer with the
\* hashes of hs that are not keys of blockmap at that moment, in the order of
\* hs; no step of the handler changes chain, orphan buffer, state or mempool.
C23_AsksForUnknownOnly ==
    [][\A w \in Workers : (pc[w] = "h_lock_chain" /\ pc'[w] # pc[w]) =>
          /\ UNCHANGED <<chain, buffer, utxo, txmap>>
          /\ pc'[w] = "recv" =>
                LET reply == [type |-> "GetBlocks", to |-> "peer",
                              hashes |-> NotIndexed(chain, wl[w].blockhashes)]
                IN  \A m \in DOMAIN out' :
                        BroadcastCount(out', m) =
                            BroadcastCount(out, m) + (IF m = reply THEN 1 ELSE 0)]_vars

\* a worker has answered an announcement of the mined block and an unknown
\* block by asking for the unknown one alone
C23_AskedForTheUnknownOne ==
    /\ last.op = "announced"
    /\ last.blockhashes = <<BlockHash(bMined), BlockHash(bA)>>
    /\ BlockHash(bMined) \in DOMAIN chain.blockmap
    /\ BroadcastCount(out, [type |-> "GetBlocks", to |-> "peer", hashes |-> <<BlockHash(bA)>>]) = 1

-----------------------------------------------------------------------------
(* Life of a transaction in the mempool *)

\* C24: every step that takes a transaction out of the mempool also adds to
\* blockmap a block whose content holds that transaction; nothing else evicts.
C24_RemovedOnlyByInclusion ==
    [][\A h \in DOMAIN txmap \ DOMAIN txmap' :
          \E b \in Added : \E i \in DOMAIN b.content : b.content[i] = txmap[h]]_vars

\* the generator's transaction is still in the mempool after a worker has
\* accepted the block bTx, which took txGood out of it
C24_OneIncludedOneStays ==
    /\ last = Did("accepted", bTx)
    /\ BroadcastCount(out, NewTransactionHashes(<<SignedHash(txGood)>>)) = 1
    /\ SignedHash(txGood) \notin DOMAIN txmap
    /\ SignedHash(GenTx(1, 0)) \in DOMAIN txmap

\* C25: every transaction that a step puts into the mempool passes the
\* signature, ownership and conservation checks against the UTXO state of
\* that moment, whichever thread inserts it.
C25_AdmittedWereValid ==
    [][\A h \in DOMAIN txmap' \ DOMAIN txmap : ~ FailsValidation(utxo, txmap'[h])]_vars

\* the mempool holds the generator's transaction, whose input names an
\* outpoint that the UTXO state does not have
C25_UncheckedInMempool ==
    /\ SignedHash(GenTx(1, 0)) \in DOMAIN txmap
    /\ <<Raw(1), 0>> \notin DOMAIN utxo
    /\ BroadcastCount(out, NewTransactionHashes(<<SignedHash(GenTx(1, 0))>>)) = 1

\* C26: a worker holding a delivered block that is not indexed and whose
\* parent is not indexed stores it in the orphan buffer under its parent hash,
\* whatever its proof of work and content, in place of any block stored there;
\* the other entries of the buffer, blockmap, tip, UTXO state and mempool stay
\* as they are and nothing is broadcast.
C26_OrphanBufferedUnchecked ==
    [][\A w \in Workers :
          (/\ pc[w] = "b_lock_buffer"
           /\ pc'[w] # pc[w]
           /\ ~poisoned["orphan_buffer"]
           /\ wl[w].block.header.parent \notin DOMAIN chain.blockmap)
          => /\ DOMAIN buffer' = DOMAIN buffer \cup {wl[w].block.header.parent}
             /\ \A k \in DOMAIN buffer' :
                   buffer'[k] = IF k = wl[w].block.header.parent THEN wl[w].block ELSE buffer[k]
             /\ UNCHANGED <<chain, utxo, txmap, out>>
             /\ pc'[w] = "b_loop"]_vars

\* the block bOrphanPow, whose hash is above its difficulty, sits in the
\* buffer under the hash of its unknown parent, after a second delivery
C26_BadPowOrphanStored ==
    /\ last = Did("buffered", bOrphanPow)
    /\ BlockHash(bA) \in DOMAIN buffer
    /\ buffer[BlockHash(bA)] = bOrphanPow
    /\ BlockHash(bA) \notin DOMAIN chain.blockmap
    /\ HashValue(BlockHash(bOrphanPow)) > HashValue(bOrphanPow.header.difficulty)
    /\ count.msgs = 2

-----------------------------------------------------------------------------
(* Selection of transactions *)

RECURSIVE TotalSize(_)
TotalSize(data) == IF data = <<>> THEN 0 ELSE SerializedSize(Head(data)) + TotalSize(Tail(data))

\* data is the first n transactions of the mempool m in the order given, no
\* more than 2048 bytes in all, and the next one, if any, would not fit
PrefixThatFits(m, order, n, data) ==
    /\ data = [i \in 1..n |-> m[order[i]]]
    /\ TotalSize(data) <= 2048
    /\ n < Len(order) => TotalSize(data) + SerializedSize(m[order[n + 1]]) > 2048

\* C27: the content of every block the miner assembles and inserts is a
\* prefix of the mempool in one of its iteration orders, cut at the first
\* transaction that would bring the size above 2048 bytes, and is at most
\* 2048 bytes; an iteration whose candidate fails the test, or that ends in a
\* panic, leaves the mempool as it was.
C27_SelectionIsFittingPrefix ==
    [][MinerAssembles =>
          /\ \A b \in Added : \E order \in KeyOrders(txmap) : \E n \in 0..Len(order) :
                PrefixThatFits(txmap, order, n, b.content)
          /\ Added = {} => txmap' = txmap]_vars

\* the miner has mined WideTx(30) alone out of a mempool that also holds
\* WideTx(36), which came next and did not fit, and WideTx(1), which would have
C27_StoppedAtFirstMisfit ==
    /\ Cardinality(DOMAIN chain.blockmap) = 2
    /\ \E h \in DOMAIN chain.blockmap : chain.blockmap[h].content = <<WideTx(30)>>
    /\ DOMAIN txmap = {SignedHash(WideTx(36)), SignedHash(WideTx(1))}

-----------------------------------------------------------------------------
(* End of the mining loop *)

\* C28: the miner thread returns from miner_loop only when it has handled an
\* Exit signal: nothing else, and no timeout, takes a running miner out of
\* its loop.
C28_ReturnsOnlyOnExit ==
    [][(pc["miner"] # "returned" /\ pc'["miner"] = "returned") => opstate'.tag = "ShutDown"]_vars

\* the miner has returned while in Run, with no Exit ever sent
C28_ReturnedWhileRunning ==
    /\ pc["miner"] = "returned"
    /\ opstate.tag = "Run"
    /\ ~ExitSent
    /\ \A l \in Locks : owner[l] = Free /\ ~poisoned[l]

-----------------------------------------------------------------------------
(* Indexed blocks *)

\* C29: a block that is in blockmap stays there under its hash with the same
\* header and content, whatever the miner inserts, the peers deliver (a block
\* with the hash of an indexed block and another content included) and the
\* orphan flush inserts.
C29_IndexedBlocksImmutable ==
    [][\A h \in DOMAIN chain.blockmap :
          h \in DOMAIN chain'.blockmap /\ chain'.blockmap[h] = chain.blockmap[h]]_vars

\* bB is indexed, and a worker has just passed over the delivered block that
\* has the header of bB and another content
C29_SameHashPassedOver ==
    /\ last = Did("known", bSameHeader)
    /\ BlockHash(bB) \in DOMAIN chain.blockmap
    /\ chain.blockmap[BlockHash(bB)] = bB

\* C30: every block the miner inserts has the tip of that moment as parent
\* and the difficulty of that parent, becomes the tip, and is one higher than
\* the tip it was built on; and between the miner taking the chain lock and
\* the end of its iteration no other thread changes the index.
C30_MinedOnTipUnderLock ==
    [][/\ MinerAssembles =>
             \A b \in Added :
                /\ b.header.parent = chain.tip
                /\ b.header.difficulty = chain.blockmap[chain.tip].header.difficulty
                /\ chain'.tip = BlockHash(b)
                /\ chain'.lengthmap[BlockHash(b)] = chain.lengthmap[chain.tip] + 1
       /\ (owner["chain"] = "miner" /\ ~MinerAssembles) => chain' = chain
       /\ (chain' # chain /\ ~MinerAssembles) => owner["chain"] \in Workers]_vars

\* the miner has mined on top of bA, which a worker had inserted, and its
\* block is the tip at height 2
C30_MinedOnWorkersBlock ==
    \E h \in DOMAIN chain.blockmap :
        /\ chain.blockmap[h].header.parent = BlockHash(bA)
        /\ chain.blockmap[h].content = <<GenTx(1, 0)>>
        /\ chain.tip = h
        /\ chain.lengthmap[h] = 2

-----------------------------------------------------------------------------
(* Announcements of blocks *)

\* the NewBlockHashes messages this node has broadcast
BlockAnnouncements == {msg \in DOMAIN out : msg.type = "NewBlockHashes"}

\* C31: every NewBlockHashes broadcast carries one hash, that of a block of
\* blockmap, and was made once; every block of blockmap but genesis, whether
\* mined, accepted by a worker or flushed from the orphan buffer, has been
\* announced; so a block that was dropped, rejected or only buffered has not.
C31_AnnouncedOncePerInserted ==
    /\ \A msg \in BlockAnnouncements :
          /\ Len(msg.hashes) = 1
          /\ msg.hashes[1] \in DOMAIN chain.blockmap
          /\ out[msg] = 1
    /\ \A h \in DOMAIN chain.blockmap \ {G} : NewBlockHashes(<<h>>) \in BlockAnnouncements

\* a mined block, the directly accepted bA and the flushed bB are each
\* announced once, while bPow, dropped a moment ago, is not
C31_ThreeAnnouncedDroppedNot ==
    /\ {BlockHash(bA), BlockHash(bB)} \subseteq DOMAIN chain.blockmap
    /\ chain.lengthmap[BlockHash(bB)] = 2
    /\ \E h \in DOMAIN chain.blockmap : chain.blockmap[h] \notin NetBlocks \cup {Genesis}
    /\ \A h \in DOMAIN chain.blockmap \ {G} : BroadcastCount(out, NewBlockHashes(<<h>>)) = 1
    /\ last = Did("dropped", bPow)
    /\ BroadcastCount(out, NewBlockHashes(<<BlockHash(bPow)>>)) = 0

-----------------------------------------------------------------------------
(* The idle miner *)

\* blocked in recv() of line 112 while Paused
MinerWaitsForSignal == pc["miner"] = "m_top" /\ opstate.tag = "Paused"

\* in thread::sleep of line 183 while Running with a nonzero interval
MinerSleeps == pc["miner"] = "m_sleep" /\ opstate.tag = "Run" /\ opstate.i # 0

\* C32: while the miner waits for a control signal in Paused, or sleeps for
\* its interval in Run, it holds neither the chain nor the mempool mutex.
C32_IdleMinerHoldsNoLock ==
    (MinerWaitsForSignal \/ MinerSleeps) => Held("miner") \cap {"chain", "mempool"} = {}

\* the miner sleeps with both guards alive, one worker waits for the chain
\* at line 101 and the other for the mempool at line 239
C32_WorkersWaitForSleepingMiner ==
    /\ MinerSleeps
    /\ owner["chain"] = "miner"
    /\ owner["mempool"] = "miner"
    /\ \E w \in Workers : pc[w] = "b_lock_chain"
    /\ \E w \in Workers : pc[w] = "t_lock_mempool"

-----------------------------------------------------------------------------
(* Orphans left behind *)

\* worker w is between the chain lock of line 101 and the end of the handler
InBlocksHandler(w) ==
    pc[w] \in {"b_lock_chain", "b_loop", "b_lock_buffer", "b_lock_state",
               "b_lock_mempool", "b_relock_state", "deadlocked"}

====
